---- MODULE Spec2Model ----
(***************************************************************************)
(* Safe-drive-AI: the drowsiness session of App (SimulationPanel.tsx,      *)
(* second half) driven by the frame loops of DetectionPanel.tsx.           *)
(*                                                                         *)
(* Time is in milliseconds.  Date.now() and performance.now() run at the   *)
(* same rate and the code only ever subtracts or compares values of one    *)
(* clock, so one clock `now` stands for both.  eyesClosedDuration is kept  *)
(* in milliseconds: the code divides by 1000 in processVideo and           *)
(* multiplies by 1000 again in handleMetricsUpdate.                        *)
(***************************************************************************)
EXTENDS Integers, Sequences, FiniteSets, TLC

VARIABLES
    now,                    \* wall clock read by Date.now()
    landmarker,             \* DetectionPanel: FaceLandmarker loaded
    loops,                  \* captured drowsinessState of every running rAF chain
    drowsinessState,        \* App: useState<DrowsinessState>
    lastStateRef,           \* App: lastStateRef.current
    probationEndTimeRef,    \* App: probationEndTimeRef.current
    probationActive,        \* App: useState(false)
    hasCalledGeminiRef,     \* App: hasCalledGeminiRef.current
    logs,                   \* App: useState<EmergencyLog[]>, newest first
    metrics,                \* App: useState<DetectionMetrics>
    rendered,               \* what the last committed render of App captured
    pending,                \* report timeouts / calls not yet resolved
    simState,               \* App: useState<SimulationState>
    simTicks,               \* number of simulation ticks so far
    obs,                    \* what the last processed frame did (observation only)
    episodeCalls,           \* report triggers since the session last entered CRITICAL (observation only)
    earHistory,             \* DetectionPanel: earHistory.current, oldest first, EAR in 1/100
    eyesClosedStartTime,    \* DetectionPanel: eyesClosedStartTime.current, NULL when unset
    wasClosedRef,           \* DetectionPanel: wasClosedRef.current
    blinkTimestamps,        \* DetectionPanel: blinkTimestamps.current, oldest first
    lastVideoTimeRef,       \* DetectionPanel: lastVideoTimeRef.current
    videoFrames,            \* number of video frames the loops have looked at
    fed,                    \* every earAvg fed to the tracker so far (observation only)
    skipped,                \* callbacks that found no new video frame (observation only)
    sample                  \* tracker outputs of the last video frame (observation only)

sessionVars == <<now, landmarker, loops, drowsinessState, lastStateRef,
                 probationEndTimeRef, probationActive, hasCalledGeminiRef, logs,
                 metrics, rendered, pending, simState, simTicks, obs,
                 episodeCalls>>

trackerVars == <<earHistory, eyesClosedStartTime, wasClosedRef, blinkTimestamps,
                 lastVideoTimeRef, videoFrames, fed, skipped, sample>>

vars == <<sessionVars, trackerVars>>

----------------------------------------------------------------------------
(* Program constants *)

TIME_TO_WARNING == 2000
TIME_TO_CRITICAL == 10000
PROBATION_TIME == 300000
MAX_SPEED == 90
WARNING_SPEED == 45
CRITICAL_SPEED == 0
RELAPSE_MS == 3000
RECOVERY_MS == 200
RECOVERY_SCORE == 20
LOG_KEEP == 14

(* DetectionPanel; EAR and pitch are in 1/100 *)
EAR_THRESHOLD == 26
HEAD_PITCH_THRESHOLD == 20
EAR_WINDOW == 10
BLINK_WINDOW == 60000
SCORE_EAR_LIMIT == 28
SCORE_EAR == 30
SCORE_PITCH == 40
SCORE_BLINK == 10
SCORE_MS_PER_POINT == 50
LOW_BLINK_RATE == 10
SCORE_MAX == 100

NORMAL == "NORMAL"
WARNING == "WARNING"
CRITICAL == "CRITICAL"
DrowsinessState == {NORMAL, WARNING, CRITICAL}

(* null of the refs that hold a time (times are never negative) *)
NULL == -1

(* The entries addLog is called with (message, type). *)
LOG_RELAPSE ==
    [message |-> "CRITICAL: Drowsiness relapse during probation!", type |-> "critical"]
LOG_RECOVERED ==
    [message |-> "Driver recovered. ENTERING PROBATION (5 MIN).", type |-> "alert"]
LOG_WARNING ==
    [message |-> "WARNING: Eyes closed > 2s. Slowing down.", type |-> "alert"]
LOG_CRITICAL ==
    [message |-> "CRITICAL: Emergency Stop Triggered.", type |-> "critical"]
LOG_CONTACTING ==
    [message |-> "System: Contacting AI Emergency Services...", type |-> "info"]
LOG_EMS(report) == [message |-> report, type |-> "ai"]

----------------------------------------------------------------------------
(* Bounds of the model *)

MaxNow == 600000
MaxSimTicks == 1
MaxPending == 2

(* Time that passes between two processed frames. *)
FrameGaps == {150000, 300000}

(* Metrics a frame can carry into handleMetricsUpdate. *)
ClosedMsInputs == {0, 150, 200, 2000, 2001, 3000, 3001, 10000, 10001}
ScoreInputs == {19, 20}

(* Inputs of the whole pipeline: earAvg and pitch of a frame with a face   *)
(* (1/100), and the time since the previous video frame.                   *)
MaxVideoFrames == 3
PipeEars == {20, 40}
PipePitches == {10, 30}
PipeGaps == {50, 10050, 60000}

(* Inputs of the blink runs: short runs over EAR values around 0.26. *)
MaxBlinkFrames == 5
BlinkEars == {19, 20, 30, 31, 32}
BlinkGap == 50

(* Inputs of the window runs: runs longer than the EAR window. *)
MaxWindowFrames == 12
WindowEars == {10, 35}
WindowGap == 50

(* Inputs of the closure scenario: frames every 500 ms while the eyes      *)
(* close and reopen and the EAR window refills, then frames 50 s apart.    *)
MaxScenarioNow == 400000
ScenarioGaps == {500, 50000}

(* Inputs of the simulation runs: frames 150 s apart that open the eyes,   *)
(* warn or stop, and up to 4 ticks of the simulation interval.             *)
MaxLoopTicks == 4
LoopClosedMs == {0, 2001, 10001}

(* Inputs of the expiry runs: six frames with a face, the third one with   *)
(* open eyes, a few ms, 3 s, 10 s or almost the probation time apart.      *)
ExpiryEars == <<20, 20, 40, 20, 20, 20>>
ExpiryGaps == {50, 3050, 10050, 294000}

(* The relapse scenario runs for 27 s. *)
MaxRelapseNow == 27000

(* Inputs of the score runs: a driver who has been driving for 30 s with   *)
(* an EAR of 0.27 and has blinked 9 or 10 times, once a second from 1 s;   *)
(* then frames with an EAR of 0.10, 0.27 or 0.40, a pitch at or above the  *)
(* threshold, 50 ms or about 5 s apart.                                    *)
MaxScoreFrames == 3
ScoreStart == 30000
ScoreBlinks == {9, 10}
ScoreEars == {10, 27, 40}
ScorePitches == {20, 21}
ScoreGaps == {50, 5000, 5050}

(* Closure durations (ms) the score is compared over. *)
ScoreDurations ==
    {0, 50, 100, 1000, 1450, 1500, 2950, 3000, 3450, 3500, 4950, 5000,
     5050, 10000}

(* What can happen to one call of generateEmergencyReport: no API key,     *)
(* the request throws, the response has no text, the response has text.    *)
ReportOutcomes == {"nokey", "error", "empty", "text"}

----------------------------------------------------------------------------
(* Helpers *)

Min(a, b) == IF a < b THEN a ELSE b
Max(a, b) == IF a > b THEN a ELSE b

(* addLog: [new, ...prev.slice(0, 14)] *)
addLog(l, message) == <<message>> \o SubSeq(l, 1, Min(Len(l), LOG_KEEP))

RECURSIVE addLogs(_, _)
addLogs(l, messages) ==
    IF messages = <<>> THEN l
    ELSE addLogs(addLog(l, Head(messages)), Tail(messages))

----------------------------------------------------------------------------
(* handleMetricsUpdate, lines 248-287: the rules, evaluated on the         *)
(* drowsinessState the callback captured.                                  *)

isProbationAt(t, endTime) == t < endTime

(* Variant: the warning rule is tested before the critical rule. *)
nextStateOf_WarningFirst(captured, closedMs, score, isProbation) ==
    IF isProbation /\ closedMs > RELAPSE_MS THEN CRITICAL
    ELSE IF closedMs > TIME_TO_WARNING THEN
        (IF captured # CRITICAL THEN WARNING ELSE captured)
    ELSE IF closedMs > TIME_TO_CRITICAL THEN CRITICAL
    ELSE IF closedMs < RECOVERY_MS THEN
        (IF captured = WARNING THEN NORMAL
         ELSE IF captured = CRITICAL THEN
            (IF score < RECOVERY_SCORE THEN NORMAL ELSE captured)
         ELSE NORMAL)
    ELSE captured

(* Variant: probation does not lower the critical threshold. *)
nextStateOf_NoRelapse(captured, closedMs, score, isProbation) ==
    IF closedMs > TIME_TO_CRITICAL THEN CRITICAL
    ELSE IF closedMs > TIME_TO_WARNING THEN
        (IF captured # CRITICAL THEN WARNING ELSE captured)
    ELSE IF closedMs < RECOVERY_MS THEN
        (IF captured = WARNING THEN NORMAL
         ELSE IF captured = CRITICAL THEN
            (IF score < RECOVERY_SCORE THEN NORMAL ELSE captured)
         ELSE NORMAL)
    ELSE captured

nextStateOf(captured, closedMs, score, isProbation) ==
    IF closedMs > TIME_TO_CRITICAL THEN CRITICAL
    ELSE IF isProbation /\ closedMs > RELAPSE_MS THEN CRITICAL
    ELSE IF closedMs > TIME_TO_WARNING THEN
        (IF captured # CRITICAL THEN WARNING ELSE captured)
    ELSE IF closedMs < RECOVERY_MS THEN
        (IF captured = WARNING THEN NORMAL
         ELSE IF captured = CRITICAL THEN
            (IF score < RECOVERY_SCORE THEN NORMAL ELSE captured)
         ELSE NORMAL)
    ELSE captured

(* lines 259-263: the relapse log of rule 2 *)
relapseLogs(captured, closedMs, isProbation) ==
    IF closedMs <= TIME_TO_CRITICAL /\ isProbation /\ closedMs > RELAPSE_MS
       /\ captured # CRITICAL
    THEN <<LOG_RELAPSE>> ELSE <<>>

(* lines 290-302: the log of the state transition handling *)
transitionLogs(last, next) ==
    IF next = last THEN <<>>
    ELSE IF last = CRITICAL /\ next = NORMAL THEN <<LOG_RECOVERED>>
    ELSE IF next = WARNING THEN <<LOG_WARNING>>
    ELSE IF next = CRITICAL THEN <<LOG_CRITICAL>>
    ELSE <<>>

(* lines 290-296: probationEndTimeRef after the transition handling *)
(* Variant: every recovery to NORMAL starts probation. *)
probationEndAfter_AnyRecovery(last, next, t, endTime) ==
    IF next # last /\ next = NORMAL
    THEN t + PROBATION_TIME ELSE endTime

probationEndAfter(last, next, t, endTime) ==
    IF next # last /\ last = CRITICAL /\ next = NORMAL
    THEN t + PROBATION_TIME ELSE endTime

(* lines 290-296: hasCalledGeminiRef after the transition handling *)
hasCalledAfter(last, next, called) ==
    IF next # last /\ last = CRITICAL /\ next = NORMAL THEN FALSE ELSE called

----------------------------------------------------------------------------
Init ==
    /\ now = 0
    /\ landmarker = FALSE
    /\ loops = {}
    /\ drowsinessState = NORMAL
    /\ lastStateRef = NORMAL
    /\ probationEndTimeRef = 0
    /\ probationActive = FALSE
    /\ hasCalledGeminiRef = FALSE
    /\ logs = <<>>
    /\ metrics = [eyesClosedDuration |-> 0, drowsinessScore |-> 0]
    /\ rendered = [state |-> NORMAL, duration |-> 0]
    /\ pending = 0
    /\ simState = [speed |-> MAX_SPEED * 100, hazardsOn |-> FALSE, honking |-> FALSE]
    /\ simTicks = 0
    /\ obs = [op |-> "init", prev |-> NORMAL, captured |-> NORMAL,
              isProbation |-> FALSE, endBefore |-> 0, emitted |-> <<>>]
    /\ episodeCalls = 0
    /\ earHistory = <<>>
    /\ eyesClosedStartTime = NULL
    /\ wasClosedRef = FALSE
    /\ blinkTimestamps = <<>>
    /\ lastVideoTimeRef = NULL
    /\ videoFrames = 0
    /\ fed = <<>>
    /\ skipped = 0
    /\ sample = [face |-> FALSE, sum |-> 0, len |-> 0, isClosed |-> FALSE,
                 blinksPerMinute |-> 0, blinked |-> FALSE, pitch |-> 0]

(* DetectionPanel lines 73-93 and 203-205: the landmarker is loaded, the   *)
(* component re-renders and the effect starts the first frame loop with    *)
(* the processVideo of that render.                                        *)
initMediaPipe ==
    /\ ~landmarker
    /\ landmarker' = TRUE
    /\ loops' = loops \cup {rendered.state}
    /\ UNCHANGED <<now, drowsinessState, lastStateRef, probationEndTimeRef,
                   probationActive, hasCalledGeminiRef, logs, metrics,
                   rendered, pending, simState, simTicks, obs, episodeCalls>>
    /\ UNCHANGED trackerVars

(* One call of handleMetricsUpdate (lines 245-307) at time now + gap by a   *)
(* running loop whose callback captured `captured`: what it does to the    *)
(* session.                                                                *)
handleMetricsUpdate(captured, closedMs, score, gap) ==
    LET t == now + gap
        isProbation == isProbationAt(t, probationEndTimeRef)
        nextState == nextStateOf(captured, closedMs, score, isProbation)
        emitted == relapseLogs(captured, closedMs, isProbation)
                   \o transitionLogs(lastStateRef, nextState)
    IN
    /\ captured \in loops
    /\ t <= MaxNow
    /\ now' = t
    /\ metrics' = [eyesClosedDuration |-> closedMs, drowsinessScore |-> score]
    /\ probationActive' = isProbation
    /\ probationEndTimeRef' =
           probationEndAfter(lastStateRef, nextState, t, probationEndTimeRef)
    /\ hasCalledGeminiRef' =
           hasCalledAfter(lastStateRef, nextState, hasCalledGeminiRef)
    /\ logs' = addLogs(logs, emitted)
    /\ drowsinessState' = nextState
    /\ lastStateRef' = nextState
    /\ obs' = [op |-> "frame", prev |-> lastStateRef, captured |-> captured,
               isProbation |-> isProbation, endBefore |-> probationEndTimeRef,
               emitted |-> emitted]
    /\ episodeCalls' = IF lastStateRef # CRITICAL /\ nextState = CRITICAL
                       THEN 0 ELSE episodeCalls
    /\ UNCHANGED <<landmarker, loops, rendered, pending, simState, simTicks>>

(* React commits a render of App in which drowsinessState or               *)
(* metrics.eyesClosedDuration differs from the previous commit, and runs   *)
(* the effects whose dependencies changed: the frame-loop effect of        *)
(* DetectionPanel (203-205, when handleMetricsUpdate was re-created), the  *)
(* simulation interval (310-339) and the report effect (342-356).          *)
(* line 344: the guard of the report effect *)
(* Variant: the one-shot flag is not consulted. *)
reportTrigger_NoFlag(state, called) == state = CRITICAL

reportTrigger(state, called) == state = CRITICAL /\ ~called

render ==
    LET stateChanged == drowsinessState # rendered.state
        trigger == reportTrigger(drowsinessState, hasCalledGeminiRef)
        emitted == IF trigger THEN <<LOG_CONTACTING>> ELSE <<>>
    IN
    /\ stateChanged \/ metrics.eyesClosedDuration # rendered.duration
    /\ trigger => pending < MaxPending
    /\ rendered' = [state |-> drowsinessState,
                    duration |-> metrics.eyesClosedDuration]
    /\ loops' = IF stateChanged /\ landmarker
                THEN loops \cup {drowsinessState} ELSE loops
    /\ hasCalledGeminiRef' = (hasCalledGeminiRef \/ trigger)
    /\ pending' = IF trigger THEN pending + 1 ELSE pending
    /\ logs' = addLogs(logs, emitted)
    /\ episodeCalls' = IF trigger THEN episodeCalls + 1 ELSE episodeCalls
    /\ UNCHANGED <<now, landmarker, drowsinessState, lastStateRef,
                   probationEndTimeRef, probationActive, metrics, simState,
                   simTicks, obs>>
    /\ UNCHANGED trackerVars

(* Variant: the key is not checked, and the call without one fails. *)
generateEmergencyReport_NoKeyCheck(outcome) ==
    IF outcome \in {"nokey", "error"}
        THEN "Error generating AI report. System Alerting EMS manually."
    ELSE IF outcome = "empty" THEN "Emergency reported. Driver unresponsive."
    ELSE "<generated text>"

(* geminiService.ts lines 6-33: the string the report call resolves to *)
generateEmergencyReport(outcome) ==
    IF outcome = "nokey" THEN "API Key missing. Cannot generate AI report."
    ELSE IF outcome = "error"
        THEN "Error generating AI report. System Alerting EMS manually."
    ELSE IF outcome = "empty" THEN "Emergency reported. Driver unresponsive."
    ELSE "<generated text>"

(* lines 349-352: the timeout fired and generateEmergencyReport resolved;  *)
(* its string is appended to the log.                                      *)
(* Variant: the arrival of the report re-arms the one-shot flag. *)
reportArrives_Rearm(outcome) ==
    /\ pending > 0
    /\ pending' = pending - 1
    /\ logs' = addLog(logs, LOG_EMS(generateEmergencyReport(outcome)))
    /\ hasCalledGeminiRef' = FALSE
    /\ UNCHANGED <<now, landmarker, loops, drowsinessState, lastStateRef,
                   probationEndTimeRef, probationActive,
                   metrics, rendered, simState, simTicks, obs, episodeCalls>>
    /\ UNCHANGED trackerVars

reportArrives(outcome) ==
    /\ pending > 0
    /\ pending' = pending - 1
    /\ logs' = addLog(logs, LOG_EMS(generateEmergencyReport(outcome)))
    /\ UNCHANGED <<now, landmarker, loops, drowsinessState, lastStateRef,
                   probationEndTimeRef, probationActive, hasCalledGeminiRef,
                   metrics, rendered, simState, simTicks, obs, episodeCalls>>
    /\ UNCHANGED trackerVars

(* lines 311-337: one tick of the simulation interval; the interval's      *)
(* closure sees the drowsinessState of the render that created it.  Speed  *)
(* is in 1/100 km/h.                                                       *)
(* Variant: WARNING does not slow the car. *)
targetSpeed_NoWarning(seen) ==
    IF seen = CRITICAL THEN CRITICAL_SPEED * 100 ELSE MAX_SPEED * 100

targetSpeed(seen) ==
    IF seen = WARNING THEN WARNING_SPEED * 100
    ELSE IF seen = CRITICAL THEN CRITICAL_SPEED * 100
    ELSE MAX_SPEED * 100

lerpPercent(seen) == IF seen = CRITICAL THEN 10 ELSE 2

tick ==
    LET seen == rendered.state
        newSpeed == simState.speed
                    + ((targetSpeed(seen) - simState.speed) * lerpPercent(seen)) \div 100
    IN
    /\ simTicks' = simTicks + 1
    /\ simState' = [speed |-> Max(0, newSpeed),
                    hazardsOn |-> seen \in {WARNING, CRITICAL},
                    honking |-> seen = CRITICAL]
    /\ UNCHANGED <<now, landmarker, loops, drowsinessState, lastStateRef,
                   probationEndTimeRef, probationActive, hasCalledGeminiRef,
                   logs, metrics, rendered, pending, obs, episodeCalls>>
    /\ UNCHANGED trackerVars

simTick == simTicks < MaxSimTicks /\ tick

Frame ==
    \E captured \in DrowsinessState, closedMs \in ClosedMsInputs,
       score \in ScoreInputs, gap \in FrameGaps :
        /\ handleMetricsUpdate(captured, closedMs, score, gap)
        /\ UNCHANGED trackerVars

Report == \E outcome \in ReportOutcomes : reportArrives(outcome)

Next == initMediaPipe \/ Frame \/ render \/ Report \/ simTick

Spec == Init /\ [][Next]_vars

----------------------------------------------------------------------------
(* The tracker and the score of DetectionPanel.processVideo, lines 106-196.*)
(* The window mean is kept as the pair (sum, length) and compared by       *)
(* cross-multiplication; frame times are multiples of 50 ms, so that       *)
(* currentClosedDuration * 20 is a whole number of score points.           *)

RECURSIVE sumOf(_)
sumOf(h) == IF h = <<>> THEN 0 ELSE Head(h) + sumOf(Tail(h))

(* Variant: a timestamp exactly 60 s old is kept. *)
keepRecent_Inclusive(stamps, t) ==
    SelectSeq(stamps, LAMBDA x : t - x <= BLINK_WINDOW)

(* line 166: filter(t => now - t < 60000) *)
keepRecent(stamps, t) ==
    SelectSeq(stamps, LAMBDA x : t - x < BLINK_WINDOW)

(* Variant: the newest sample is dropped from a full window. *)
pushEar_DropNewest(h, earAvg) ==
    LET pushed == Append(h, earAvg)
    IN IF Len(pushed) > EAR_WINDOW THEN SubSeq(pushed, 1, EAR_WINDOW)
       ELSE pushed

(* lines 121-122: push, then shift when longer than 10 *)
pushEar(h, earAvg) ==
    LET pushed == Append(h, earAvg)
    IN IF Len(pushed) > EAR_WINDOW THEN Tail(pushed) ELSE pushed

(* line 146: smoothedEAR < EAR_THRESHOLD *)
isClosedOf(h) == sumOf(h) < EAR_THRESHOLD * Len(h)

(* Variant: the closure timer restarts on every closed frame. *)
startTimeAfter_Restart(closed, start, t) ==
    IF closed THEN t ELSE NULL

(* lines 150-162: eyesClosedStartTime after the closure timer *)
startTimeAfter(closed, start, t) ==
    IF closed THEN (IF start = NULL THEN t ELSE start) ELSE NULL

(* lines 147-162: currentClosedDuration, in ms *)
closedDurationOf(closed, start, t) ==
    IF closed THEN t - startTimeAfter(closed, start, t) ELSE 0

(* Variant: a blink is pushed on either edge. *)
blinksAfter_AnyEdge(closed, wasClosed, stamps, t) ==
    IF closed # wasClosed THEN Append(stamps, t) ELSE stamps

(* lines 155-159: the blink pushed on the closed -> open edge *)
blinksAfter(closed, wasClosed, stamps, t) ==
    IF ~closed /\ wasClosed THEN Append(stamps, t) ELSE stamps

(* Variant: the score is not clamped. *)
scoreOf_Unclamped(h, pitch, closedDuration, bpm) ==
    (IF sumOf(h) < SCORE_EAR_LIMIT * Len(h) THEN SCORE_EAR ELSE 0)
    + (IF pitch > HEAD_PITCH_THRESHOLD THEN SCORE_PITCH ELSE 0)
    + closedDuration \div SCORE_MS_PER_POINT
    + (IF bpm < LOW_BLINK_RATE THEN SCORE_BLINK ELSE 0)

(* Variant: the closure counts in whole seconds. *)
scoreOf_WholeSeconds(h, pitch, closedDuration, bpm) ==
    LET raw == (IF sumOf(h) < SCORE_EAR_LIMIT * Len(h) THEN SCORE_EAR ELSE 0)
               + (IF pitch > HEAD_PITCH_THRESHOLD THEN SCORE_PITCH ELSE 0)
               + (closedDuration \div 1000) * 20
               + (IF bpm < LOW_BLINK_RATE THEN SCORE_BLINK ELSE 0)
    IN Min(SCORE_MAX, Max(0, raw))

(* Variant: the closure weighs half as much. *)
scoreOf_HalfWeight(h, pitch, closedDuration, bpm) ==
    LET raw == (IF sumOf(h) < SCORE_EAR_LIMIT * Len(h) THEN SCORE_EAR ELSE 0)
               + (IF pitch > HEAD_PITCH_THRESHOLD THEN SCORE_PITCH ELSE 0)
               + closedDuration \div (2 * SCORE_MS_PER_POINT)
               + (IF bpm < LOW_BLINK_RATE THEN SCORE_BLINK ELSE 0)
    IN Min(SCORE_MAX, Max(0, raw))

(* lines 171-185: the drowsiness score *)
scoreOf(h, pitch, closedDuration, bpm) ==
    LET raw == (IF sumOf(h) < SCORE_EAR_LIMIT * Len(h) THEN SCORE_EAR ELSE 0)
               + (IF pitch > HEAD_PITCH_THRESHOLD THEN SCORE_PITCH ELSE 0)
               + closedDuration \div SCORE_MS_PER_POINT
               + (IF bpm < LOW_BLINK_RATE THEN SCORE_BLINK ELSE 0)
    IN Min(SCORE_MAX, Max(0, raw))

(* Variant: every callback takes the video frame for a new one. *)
isNewFrame_Always(last, time) == TRUE

(* line 107: lastVideoTimeRef.current !== video.currentTime *)
isNewFrame(last, time) == last # time

(* processVideo on a new video frame with a face (lines 107-196), run by   *)
(* the loop whose callback captured `captured`, at time now + gap.         *)
processVideo(captured, earAvg, pitch, gap) ==
    LET t == now + gap
        h == pushEar(earHistory, earAvg)
        closed == isClosedOf(h)
        duration == closedDurationOf(closed, eyesClosedStartTime, t)
        stamps == keepRecent(
            blinksAfter(closed, wasClosedRef, blinkTimestamps, t), t)
        bpm == Len(stamps)
    IN
    /\ isNewFrame(lastVideoTimeRef, t)
    /\ lastVideoTimeRef' = t
    /\ videoFrames' = videoFrames + 1
    /\ skipped' = skipped
    /\ earHistory' = h
    /\ eyesClosedStartTime' = startTimeAfter(closed, eyesClosedStartTime, t)
    /\ wasClosedRef' = closed
    /\ blinkTimestamps' = stamps
    /\ fed' = Append(fed, earAvg)
    /\ sample' = [face |-> TRUE, sum |-> sumOf(h), len |-> Len(h),
                  isClosed |-> closed, blinksPerMinute |-> bpm,
                  blinked |-> (~closed /\ wasClosedRef), pitch |-> pitch]
    /\ handleMetricsUpdate(captured, duration,
                           scoreOf(h, pitch, duration, bpm), gap)

(* processVideo on a new video frame in which no face is found (lines      *)
(* 107-111): only lastVideoTimeRef is written.                             *)
(* Variant: a frame without a face is treated as open eyes. *)
noFace_AsOpen(captured, gap) ==
    /\ captured \in loops
    /\ now + gap <= MaxNow
    /\ now' = now + gap
    /\ isNewFrame(lastVideoTimeRef, now + gap)
    /\ lastVideoTimeRef' = now + gap
    /\ videoFrames' = videoFrames + 1
    /\ sample' = [sample EXCEPT !.face = FALSE, !.blinked = FALSE]
    /\ eyesClosedStartTime' = NULL
    /\ UNCHANGED <<landmarker, loops, drowsinessState, lastStateRef,
                   probationEndTimeRef, probationActive, hasCalledGeminiRef,
                   logs, metrics, rendered, pending, simState, simTicks, obs,
                   episodeCalls>>
    /\ UNCHANGED <<earHistory, wasClosedRef, blinkTimestamps, fed, skipped>>

noFace(captured, gap) ==
    /\ captured \in loops
    /\ now + gap <= MaxNow
    /\ now' = now + gap
    /\ isNewFrame(lastVideoTimeRef, now + gap)
    /\ lastVideoTimeRef' = now + gap
    /\ videoFrames' = videoFrames + 1
    /\ sample' = [sample EXCEPT !.face = FALSE, !.blinked = FALSE]
    /\ UNCHANGED <<landmarker, loops, drowsinessState, lastStateRef,
                   probationEndTimeRef, probationActive, hasCalledGeminiRef,
                   logs, metrics, rendered, pending, simState, simTicks, obs,
                   episodeCalls>>
    /\ UNCHANGED <<earHistory, eyesClosedStartTime, wasClosedRef,
                   blinkTimestamps, fed, skipped>>

(* processVideo when the video has no new frame (line 107 false): the     *)
(* callback of the loop that captured `captured` only re-schedules itself  *)
(* (line 200).                                                             *)
sameFrame(captured) ==
    /\ captured \in loops
    /\ ~isNewFrame(lastVideoTimeRef, now)
    /\ skipped' = skipped + 1
    /\ UNCHANGED sessionVars
    /\ UNCHANGED <<earHistory, eyesClosedStartTime, wasClosedRef,
                   blinkTimestamps, lastVideoTimeRef, videoFrames, fed, sample>>

(* The video element shows its next frame: video.currentTime (line 107),   *)
(* which the model reads off the one clock, moves on.                      *)
videoAdvances(gap) ==
    /\ now + gap <= MaxNow
    /\ now' = now + gap
    /\ UNCHANGED <<landmarker, loops, drowsinessState, lastStateRef,
                   probationEndTimeRef, probationActive, hasCalledGeminiRef,
                   logs, metrics, rendered, pending, simState, simTicks, obs,
                   episodeCalls>>
    /\ UNCHANGED trackerVars

(* The whole system: frames go through the tracker and the score. *)
PipeFrame ==
    \E captured \in DrowsinessState, earAvg \in PipeEars,
       pitch \in PipePitches, gap \in PipeGaps :
        /\ videoFrames < MaxVideoFrames
        /\ processVideo(captured, earAvg, pitch, gap)

PipeNoFace ==
    \E captured \in DrowsinessState, gap \in PipeGaps :
        /\ videoFrames < MaxVideoFrames
        /\ noFace(captured, gap)

PipeNext ==
    initMediaPipe \/ PipeFrame \/ PipeNoFace \/ render \/ Report \/ simTick

PipeSpec == Init /\ [][PipeNext]_vars

(* Short runs of frames 50 ms apart over EAR values around the threshold. *)
BlinkFrame ==
    \E captured \in DrowsinessState, earAvg \in BlinkEars :
        /\ videoFrames < MaxBlinkFrames
        /\ processVideo(captured, earAvg, HEAD_PITCH_THRESHOLD, BlinkGap)

BlinkNext == initMediaPipe \/ BlinkFrame

BlinkSpec == Init /\ [][BlinkNext]_vars

(* Runs of frames 50 ms apart that overflow the EAR window. *)
WindowFrame ==
    \E captured \in DrowsinessState, earAvg \in WindowEars :
        /\ videoFrames < MaxWindowFrames
        /\ processVideo(captured, earAvg, HEAD_PITCH_THRESHOLD, WindowGap)

WindowNext == initMediaPipe \/ WindowFrame

WindowSpec == Init /\ [][WindowNext]_vars

(* The closure scenario: the raw EAR of the frame at time t is 0.10 up to  *)
(* t = 10.5 s and 0.35 afterwards, the head is level.                      *)
scenarioEar(t) == IF t <= 10500 THEN 10 ELSE 35

ScenarioFrame ==
    \E captured \in DrowsinessState, gap \in ScenarioGaps :
        /\ (gap = 500) = (now < 16000)
        /\ now + gap <= MaxScenarioNow
        /\ processVideo(captured, scenarioEar(now + gap), 0, gap)

ScenarioNext == initMediaPipe \/ ScenarioFrame \/ render \/ Report

ScenarioSpec == Init /\ [][ScenarioNext]_vars

(* The relapse scenario: frames every 900 ms, all with a face; the raw EAR *)
(* is 0.10 up to t = 10.8 s, 0.35 up to t = 18 s and 0.10 afterwards, the  *)
(* head is level.                                                          *)
relapseEar(t) == IF t <= 10800 THEN 10 ELSE IF t <= 18000 THEN 35 ELSE 10

RelapseFrame ==
    \E captured \in DrowsinessState :
        /\ now + 900 <= MaxRelapseNow
        /\ processVideo(captured, relapseEar(now + 900), 0, 900)

RelapseNext == initMediaPipe \/ RelapseFrame \/ render

RelapseSpec == Init /\ [][RelapseNext]_vars

(* The simulation runs: session frames, renders and interval ticks. *)
LoopFrame ==
    \E captured \in DrowsinessState, closedMs \in LoopClosedMs :
        /\ handleMetricsUpdate(captured, closedMs, 19, 150000)
        /\ UNCHANGED trackerVars

LoopTick == simTicks < MaxLoopTicks /\ tick

LoopNext == initMediaPipe \/ LoopFrame \/ render \/ LoopTick

LoopSpec == Init /\ [][LoopNext]_vars

(* The expiry runs: a closure, a recovery and a second closure that can    *)
(* outlast the probation window.                                           *)
ExpiryFrame ==
    \E captured \in DrowsinessState, gap \in ExpiryGaps :
        /\ videoFrames < Len(ExpiryEars)
        /\ processVideo(captured, ExpiryEars[videoFrames + 1], 0, gap)

ExpiryNext == initMediaPipe \/ ExpiryFrame \/ render

ExpirySpec == Init /\ [][ExpiryNext]_vars

(* The score runs start from a tracker that has seen frames and blinks. *)
ScoreInit ==
    \E blinks \in ScoreBlinks :
        /\ now = ScoreStart
        /\ landmarker = TRUE
        /\ loops = {NORMAL}
        /\ drowsinessState = NORMAL
        /\ lastStateRef = NORMAL
        /\ probationEndTimeRef = 0
        /\ probationActive = FALSE
        /\ hasCalledGeminiRef = FALSE
        /\ logs = <<>>
        /\ earHistory = [i \in 1..EAR_WINDOW |-> 27]
        /\ blinkTimestamps = [i \in 1..blinks |-> 1000 * i]
        /\ metrics = [eyesClosedDuration |-> 0,
                      drowsinessScore |->
                          scoreOf(earHistory, 0, 0, Len(blinkTimestamps))]
        /\ rendered = [state |-> NORMAL, duration |-> 0]
        /\ pending = 0
        /\ simState = [speed |-> MAX_SPEED * 100, hazardsOn |-> FALSE,
                       honking |-> FALSE]
        /\ simTicks = 0
        /\ obs = [op |-> "init", prev |-> NORMAL, captured |-> NORMAL,
                  isProbation |-> FALSE, endBefore |-> 0, emitted |-> <<>>]
        /\ episodeCalls = 0
        /\ eyesClosedStartTime = NULL
        /\ wasClosedRef = FALSE
        /\ lastVideoTimeRef = ScoreStart
        /\ videoFrames = 0
        /\ fed = <<>>
        /\ skipped = 0
        /\ sample = [face |-> TRUE, sum |-> sumOf(earHistory),
                     len |-> Len(earHistory), isClosed |-> FALSE,
                     blinksPerMinute |-> Len(blinkTimestamps),
                     blinked |-> FALSE, pitch |-> 0]

ScoreFrame ==
    \E captured \in DrowsinessState, earAvg \in ScoreEars,
       pitch \in ScorePitches, gap \in ScoreGaps :
        /\ videoFrames < MaxScoreFrames
        /\ processVideo(captured, earAvg, pitch, gap)

ScoreNext == ScoreFrame

ScoreSpec == ScoreInit /\ [][ScoreNext]_vars

----------------------------------------------------------------------------
(* Properties.  A frame step is a step of handleMetricsUpdate; after it    *)
(* obs holds the session state before the frame (prev), the state the      *)
(* processing callback had captured, the frame's isProbation and the log   *)
(* entries it emitted, and metrics holds the frame's metrics.              *)

frameClosedMs == metrics.eyesClosedDuration
frameScore == metrics.drowsinessScore
FrameDone == obs.op = "frame"
Emitted(entry) == \E i \in 1..Len(obs.emitted) : obs.emitted[i] = entry
RelapseApplies == obs.isProbation /\ frameClosedMs > RELAPSE_MS

(* C1: CRITICAL recovery requires both conditions: a frame processed while *)
(* the session is CRITICAL moves it to NORMAL only if closedMs < 200 and   *)
(* drowsinessScore < 20; with closedMs < 200 and score >= 20 the session   *)
(* stays CRITICAL, with closedMs < 200 and score < 20 it becomes NORMAL.   *)
C1_CriticalRecoveryNeedsBoth ==
    (FrameDone /\ obs.prev = CRITICAL) =>
        /\ lastStateRef = NORMAL => (frameClosedMs < 200 /\ frameScore < 20)
        /\ (frameClosedMs < 200 /\ frameScore >= 20) => lastStateRef = CRITICAL
        /\ (frameClosedMs < 200 /\ frameScore < 20) => lastStateRef = NORMAL

(* C2: the session never goes directly from CRITICAL to WARNING: after a   *)
(* frame processed while the session is CRITICAL, it is CRITICAL or NORMAL.*)
C2_NoCriticalToWarning ==
    (FrameDone /\ obs.prev = CRITICAL) => lastStateRef \in {CRITICAL, NORMAL}

(* C3: rule 1 has top priority: after a processed frame with               *)
(* closedMs > TIME_TO_CRITICAL the session is CRITICAL, for every previous *)
(* state, score and probation status.                                      *)
C3_CriticalTrigger ==
    (FrameDone /\ frameClosedMs > TIME_TO_CRITICAL) =>
        (lastStateRef = CRITICAL /\ drowsinessState = CRITICAL)

(* C3 witness: a frame with closedMs > 10000 and a score below 20 took a   *)
(* NORMAL session outside probation to CRITICAL.                           *)
C3_Witness ==
    /\ FrameDone /\ frameClosedMs > TIME_TO_CRITICAL /\ frameScore < 20
    /\ obs.prev = NORMAL /\ ~obs.isProbation
    /\ lastStateRef = CRITICAL

(* C4: probation relapse: a frame processed inside the probation window    *)
(* with 3000 < closedMs <= 10000 while the session is NORMAL or WARNING    *)
(* makes it CRITICAL and emits the relapse log entry on that frame.        *)
C4_ProbationRelapse ==
    (/\ FrameDone /\ obs.isProbation
     /\ frameClosedMs > RELAPSE_MS /\ frameClosedMs <= TIME_TO_CRITICAL
     /\ obs.prev \in {NORMAL, WARNING}) =>
        (lastStateRef = CRITICAL /\ Emitted(LOG_RELAPSE))

(* C5: probation expiry: a frame processed at now >= probationEndTime      *)
(* emits no relapse entry, and with closedMs = 3001 on a NORMAL session it *)
(* yields WARNING, not CRITICAL.                                           *)
C5_ProbationExpiry ==
    (FrameDone /\ now >= obs.endBefore) =>
        /\ ~Emitted(LOG_RELAPSE)
        /\ (obs.prev = NORMAL /\ frameClosedMs = 3001) => lastStateRef = WARNING

(* C6: probationEndTime is 0 at session start, is written only by a frame  *)
(* whose transition is CRITICAL -> NORMAL, to that frame's now + 300000    *)
(* (strictly in the future), and is left unchanged by every other step.    *)
C6_ProbationEndWrittenOnlyOnRecovery ==
    /\ probationEndTimeRef = 0
    /\ [][IF now' # now /\ lastStateRef = CRITICAL /\ lastStateRef' = NORMAL
          THEN probationEndTimeRef' = now' + PROBATION_TIME
               /\ probationEndTimeRef' > now'
          ELSE probationEndTimeRef' = probationEndTimeRef]_vars

(* C6 witness: a frame took the session from CRITICAL to NORMAL and the    *)
(* deadline now is that frame's time plus PROBATION_TIME.                  *)
C6_Witness ==
    /\ FrameDone /\ obs.prev = CRITICAL /\ lastStateRef = NORMAL
    /\ probationEndTimeRef = now + PROBATION_TIME
    /\ probationEndTimeRef # obs.endBefore

(* C7: at the end of the frame that performs CRITICAL -> NORMAL,           *)
(* probationActive is true and probationEndTime = now + PROBATION_TIME,    *)
(* and probationActive is true after every frame processed before the      *)
(* deadline.                                                               *)
C7_ProbationFlagWithDeadline ==
    /\ (FrameDone /\ obs.prev = CRITICAL /\ lastStateRef = NORMAL) =>
            (probationActive /\ probationEndTimeRef = now + PROBATION_TIME)
    /\ (FrameDone /\ now < probationEndTimeRef) => probationActive

(* C8: dead zone: a processed frame with 200 <= closedMs <= 2000 leaves    *)
(* the session in the state it had after the previous processed frame and  *)
(* emits no log entry.                                                     *)
C8_DeadZone ==
    (FrameDone /\ frameClosedMs >= RECOVERY_MS /\ frameClosedMs <= TIME_TO_WARNING) =>
        (lastStateRef = obs.prev /\ obs.emitted = <<>>)

(* C9: warning entry: a processed frame with 2000 < closedMs <= 10000 on   *)
(* which the relapse rule does not apply, on a NORMAL or WARNING session,  *)
(* yields WARNING; it emits exactly one warning-entry log entry when the   *)
(* session was NORMAL and none when it was WARNING.                        *)
C9_WarningEntry ==
    (/\ FrameDone /\ frameClosedMs > TIME_TO_WARNING /\ frameClosedMs <= TIME_TO_CRITICAL
     /\ ~RelapseApplies /\ obs.prev \in {NORMAL, WARNING}) =>
        /\ lastStateRef = WARNING
        /\ obs.prev = NORMAL => obs.emitted = <<LOG_WARNING>>
        /\ obs.prev = WARNING => obs.emitted = <<>>

(* C10: warning recovery: a processed frame with closedMs < 200 on a       *)
(* WARNING session yields NORMAL whatever the score and does not start     *)
(* probation; on a NORMAL session it yields NORMAL.                        *)
C10_WarningRecovery ==
    (FrameDone /\ frameClosedMs < RECOVERY_MS /\ obs.prev \in {WARNING, NORMAL}) =>
        (lastStateRef = NORMAL /\ probationEndTimeRef = obs.endBefore)

(* C11: the report collaborator is triggered at most once per CRITICAL     *)
(* episode, however many frames are processed and however often the report *)
(* effect re-runs, and a CRITICAL -> NORMAL recovery leaves the one-shot   *)
(* flag cleared, so that the next episode can trigger it once again.       *)
C11_ReportOncePerEpisode ==
    /\ episodeCalls <= 1
    /\ (FrameDone /\ obs.prev = CRITICAL /\ lastStateRef = NORMAL) =>
            ~hasCalledGeminiRef

(* C11 witness: a second CRITICAL episode (probation was started by an     *)
(* earlier recovery) has triggered its report, with frames processed and   *)
(* the effect re-run after the trigger.                                    *)
C11_Witness ==
    /\ lastStateRef = CRITICAL /\ episodeCalls = 1 /\ hasCalledGeminiRef
    /\ probationEndTimeRef > 0
    /\ obs.prev = CRITICAL
    /\ rendered.duration = metrics.eyesClosedDuration

(* C12: SafetyState changes only inside the per-frame transition function: *)
(* every step that is not a processed frame (a report result, a simulation *)
(* tick, a render, a frame without a face) leaves SafetyState,             *)
(* probationEndTime and the tracker state unchanged, and a report result   *)
(* only puts one entry of type ai in front of the event log.               *)
C12_OnlyFramesChangeState ==
    [][/\ (fed' = fed) =>
            /\ drowsinessState' = drowsinessState
            /\ lastStateRef' = lastStateRef
            /\ probationEndTimeRef' = probationEndTimeRef
            /\ earHistory' = earHistory
            /\ eyesClosedStartTime' = eyesClosedStartTime
            /\ wasClosedRef' = wasClosedRef
            /\ blinkTimestamps' = blinkTimestamps
       /\ (pending' < pending) =>
            /\ pending' = pending - 1
            /\ Len(logs') = Min(Len(logs) + 1, LOG_KEEP + 1)
            /\ logs'[1].type = "ai"
            /\ Tail(logs') = SubSeq(logs, 1, Len(logs') - 1)
            /\ probationActive' = probationActive
            /\ hasCalledGeminiRef' = hasCalledGeminiRef
            /\ metrics' = metrics
            /\ simState' = simState
            /\ loops' = loops]_vars

(* C12 witness: a report result arrived after its episode had ended, with  *)
(* a tracker that has seen frames and a simulation that has ticked.        *)
C12_Witness ==
    /\ Len(logs) > 0 /\ logs[1].type = "ai"
    /\ lastStateRef = NORMAL /\ probationEndTimeRef > 0
    /\ earHistory # <<>> /\ simTicks > 0

(* C13: a video frame in which no face is found skips the pipeline:        *)
(* earHistory, eyesClosedStartTime, the closed/open edge flag,             *)
(* blinkTimestamps, SafetyState, probationEndTime and probationActive are  *)
(* unchanged and no metrics are emitted.                                   *)
C13_NoFaceSkipsPipeline ==
    [][(videoFrames' # videoFrames /\ ~sample'.face) =>
            /\ earHistory' = earHistory
            /\ eyesClosedStartTime' = eyesClosedStartTime
            /\ wasClosedRef' = wasClosedRef
            /\ blinkTimestamps' = blinkTimestamps
            /\ drowsinessState' = drowsinessState
            /\ lastStateRef' = lastStateRef
            /\ probationEndTimeRef' = probationEndTimeRef
            /\ probationActive' = probationActive
            /\ metrics' = metrics
            /\ logs' = logs]_vars

(* C13 witness: a frame without a face came while a closure was being      *)
(* timed and the session was not NORMAL.                                   *)
C13_Witness ==
    /\ ~sample.face /\ videoFrames > Len(fed) /\ lastVideoTimeRef = now
    /\ eyesClosedStartTime # NULL /\ wasClosedRef
    /\ lastStateRef # NORMAL

(* C14: on every processed frame the previous state the rules are          *)
(* evaluated on (the drowsinessState captured by the handleMetricsUpdate   *)
(* that runs) is the state produced by the preceding processed frame       *)
(* (lastStateRef).                                                         *)
C14_RulesReadPreviousState ==
    FrameDone => obs.captured = obs.prev

(* C15: single producer: at most one frame-loop callback chain is          *)
(* scheduled at any moment, also after SafetyState changes re-created      *)
(* handleMetricsUpdate and processVideo.                                   *)
C15_SingleFrameLoop ==
    Cardinality(loops) <= 1

(* C16: in the closure scenario (raw EAR 0.10 up to t = 10.5 s, 0.35       *)
(* afterwards, no probation at the start) the session is WARNING from the  *)
(* first frame with closedMs > 2000, CRITICAL from the first frame with    *)
(* closedMs > 10000, NORMAL again from the first frame in which the eyes   *)
(* are assessed open, and NORMAL before; probationActive is true from that *)
(* recovery for 300 s, and only then.                                      *)
C16_ClosureScenario ==
    FrameDone =>
        /\ lastStateRef =
              (IF metrics.eyesClosedDuration > TIME_TO_CRITICAL THEN CRITICAL
               ELSE IF metrics.eyesClosedDuration > TIME_TO_WARNING
                    THEN WARNING
               ELSE NORMAL)
        /\ probationActive =
              (/\ ~sample.isClosed
               /\ probationEndTimeRef > 0
               /\ now < probationEndTimeRef)
        /\ (~sample.isClosed) => probationEndTimeRef > 0

(* C17: a processed frame appends exactly one timestamp to blinkTimestamps *)
(* when smoothedEAR goes from below 0.26 on the previous processed frame   *)
(* to 0.26 or above on this one, and appends nothing on any other frame;   *)
(* from an empty tracker the raw EAR sequence 0.30, 0.20, 0.31, 0.19, 0.32 *)
(* records exactly 2 blinks.                                               *)
C17_BlinkOnClosedToOpenEdge ==
    /\ [](fed = <<30, 20, 31, 19, 32>> => Len(blinkTimestamps) = 2)
    /\ [][(fed' # fed) =>
            IF /\ sample.len > 0
               /\ sample.sum < EAR_THRESHOLD * sample.len
               /\ sample'.sum >= EAR_THRESHOLD * sample'.len
            THEN blinkTimestamps' = Append(blinkTimestamps, now')
            ELSE blinkTimestamps' = blinkTimestamps]_vars

(* C17 witness: the sequence of the claim was fed and its second blink was *)
(* recorded by the last frame.                                             *)
C17_Witness ==
    /\ fed = <<30, 20, 31, 19, 32>>
    /\ Len(blinkTimestamps) = 2 /\ blinkTimestamps[2] = now
    /\ sample.blinked

(* C18: after every processed frame no timestamp of blinkTimestamps is     *)
(* 60000 ms old or older and blinksPerMinute is the number of timestamps   *)
(* that remain.                                                            *)
C18_BlinkWindow ==
    (sample.face /\ lastVideoTimeRef = now) =>
        /\ \A i \in 1..Len(blinkTimestamps) :
               now - blinkTimestamps[i] < BLINK_WINDOW
        /\ sample.blinksPerMinute = Len(blinkTimestamps)

(* C18 witness: a blink was recorded by the second frame and the third     *)
(* frame, 60 s later and without a new blink, reports a count of 0.        *)
C18_Witness ==
    /\ fed = <<20, 40, 40>> /\ sample.face /\ lastVideoTimeRef = now
    /\ blinkTimestamps = <<>> /\ sample.blinksPerMinute = 0

(* C19: on every processed frame the emitted eyesClosedDuration is 0 and   *)
(* eyesClosedStartTime is cleared if smoothedEAR >= 0.26; otherwise the    *)
(* duration is now - eyesClosedStartTime, the start is that of the first   *)
(* closed frame of the closure, and the duration does not decrease from    *)
(* one closed frame to the next.                                           *)
C19_ClosedDuration ==
    [][(fed' # fed) =>
            IF sample'.sum >= EAR_THRESHOLD * sample'.len
            THEN /\ metrics'.eyesClosedDuration = 0
                 /\ eyesClosedStartTime' = NULL
            ELSE /\ metrics'.eyesClosedDuration = now' - eyesClosedStartTime'
                 /\ IF eyesClosedStartTime = NULL
                    THEN eyesClosedStartTime' = now'
                    ELSE /\ eyesClosedStartTime' = eyesClosedStartTime
                         /\ metrics'.eyesClosedDuration
                                >= metrics.eyesClosedDuration]_vars

(* C19 witness: a closure that has lasted over at least three closed       *)
(* frames.                                                                 *)
C19_Witness ==
    /\ sample.face /\ sample.isClosed /\ lastVideoTimeRef = now
    /\ eyesClosedStartTime # NULL
    /\ metrics.eyesClosedDuration = now - eyesClosedStartTime
    /\ metrics.eyesClosedDuration >= 10100

(* C20: after n processed frames earHistory holds the last min(n, 10)      *)
(* earAvg samples in insertion order, never more than 10, and the emitted  *)
(* smoothedEAR (sum over length) is their arithmetic mean.                 *)
C20_EarWindow ==
    LET n == Len(fed)
        k == Min(n, EAR_WINDOW)
    IN /\ Len(earHistory) <= EAR_WINDOW
       /\ earHistory = SubSeq(fed, n - k + 1, n)
       /\ (n > 0) => /\ sample.len = k
                     /\ sample.sum = sumOf(SubSeq(fed, n - k + 1, n))

(* C20 witness: more than 10 samples were fed and the dropped ones differ  *)
(* from the newest.                                                        *)
C20_Witness ==
    /\ Len(fed) = 12 /\ fed[1] = 10 /\ fed[2] = 35 /\ fed[12] = 35
    /\ Len(earHistory) = EAR_WINDOW /\ earHistory[1] = fed[3]

(* C21: on every processed frame the emitted drowsinessScore is within     *)
(* [0, 100] and is 30 if smoothedEAR < 0.28, plus 40 if pitch > 0.2, plus  *)
(* 20 per second of closure, plus 10 if blinksPerMinute < 10, clamped to   *)
(* [0, 100].                                                               *)
C21_ScoreFormula ==
    sample.face =>
        LET raw == (IF sample.sum < 28 * sample.len THEN 30 ELSE 0)
                   + (IF sample.pitch > 20 THEN 40 ELSE 0)
                   + (20 * frameClosedMs) \div 1000
                   + (IF sample.blinksPerMinute < 10 THEN 10 ELSE 0)
        IN /\ frameScore \in 0..100
           /\ frameScore = IF raw > 100 THEN 100 ELSE IF raw < 0 THEN 0
                           ELSE raw

(* C21 witness: a frame whose terms add up to more than 100 and one flag   *)
(* is off.                                                                 *)
C21_Witness ==
    /\ sample.face /\ videoFrames > 0
    /\ frameClosedMs = 5050 /\ sample.pitch = 21
    /\ sample.blinksPerMinute >= 10
    /\ frameScore = 100

(* C22: for the smoothedEAR, pitch and blinksPerMinute of any frame the    *)
(* score is monotone in the closure duration: d1 <= d2 implies             *)
(* score(d1) <= score(d2), and score(d1) < score(d2) when d1 < d2 and      *)
(* score(d2) < 100.                                                        *)
C22_ScoreMonotone ==
    sample.face =>
        \A d1, d2 \in ScoreDurations :
            LET s1 == scoreOf(earHistory, sample.pitch, d1,
                              sample.blinksPerMinute)
                s2 == scoreOf(earHistory, sample.pitch, d2,
                              sample.blinksPerMinute)
            IN /\ (d1 <= d2) => (s1 <= s2)
               /\ (d1 < d2 /\ s2 < 100) => (s1 < s2)

(* C22 witness: the second frame of a closure, 50 ms after the first,      *)
(* scores one point more than the same frame would at duration 0.          *)
C22_Witness ==
    /\ sample.face /\ sample.isClosed /\ frameClosedMs = 50
    /\ frameScore < 100
    /\ frameScore = scoreOf(earHistory, sample.pitch, 0,
                            sample.blinksPerMinute) + 1

(* C23: every processed frame with eyesClosedDuration >= 5 s emits         *)
(* drowsinessScore = 100 whatever the other flags; so does every frame on  *)
(* which rule 1 (closedMs > 10000) fires.                                  *)
C23_SustainedClosureSaturates ==
    sample.face =>
        /\ (frameClosedMs >= 5000) => (frameScore = 100)
        /\ (FrameDone /\ frameClosedMs > TIME_TO_CRITICAL) =>
               (frameScore = 100 /\ lastStateRef = CRITICAL)

(* C23 witness: a closure of exactly 5 s with the pitch and blink flags    *)
(* off.                                                                    *)
C23_Witness ==
    /\ sample.face /\ sample.isClosed /\ frameClosedMs = 5000
    /\ sample.pitch = 20 /\ sample.blinksPerMinute >= 10
    /\ frameScore = 100

(* C24: generateEmergencyReport resolves to a string for every outcome of  *)
(* the external call: the fixed fallback "Error generating AI report.      *)
(* System Alerting EMS manually." when the call fails, and a fixed         *)
(* fallback of its own when the key is missing; the caller then puts       *)
(* exactly one entry, carrying that string, in front of the log and the    *)
(* state machine is unaffected.                                            *)
C24_ReportFailureContained ==
    /\ [](/\ \A outcome \in ReportOutcomes :
                generateEmergencyReport(outcome) \in STRING
          /\ generateEmergencyReport("error") =
                "Error generating AI report. System Alerting EMS manually."
          /\ generateEmergencyReport("nokey") =
                "API Key missing. Cannot generate AI report."
          /\ generateEmergencyReport("nokey") # generateEmergencyReport("error"))
    /\ [][(pending' < pending) =>
            /\ Len(logs') = Min(Len(logs) + 1, LOG_KEEP + 1)
            /\ \E outcome \in ReportOutcomes :
                   logs'[1] = [message |-> generateEmergencyReport(outcome),
                               type |-> "ai"]
            /\ Tail(logs') = SubSeq(logs, 1, Len(logs') - 1)
            /\ drowsinessState' = drowsinessState
            /\ lastStateRef' = lastStateRef
            /\ probationEndTimeRef' = probationEndTimeRef
            /\ probationActive' = probationActive
            /\ hasCalledGeminiRef' = hasCalledGeminiRef]_vars

(* C24 witness: the report of a CRITICAL episode failed and its fallback   *)
(* is the newest log entry, after the entry of the trigger.                *)
C24_Witness ==
    /\ Len(logs) >= 2
    /\ logs[1] = [message |->
                    "Error generating AI report. System Alerting EMS manually.",
                  type |-> "ai"]
    /\ logs[2] = LOG_CONTACTING
    /\ lastStateRef = CRITICAL /\ hasCalledGeminiRef /\ pending = 0

(* C25: the relapse log entry is emitted only on a frame whose previous    *)
(* session state is not CRITICAL, so at most once per entry into CRITICAL  *)
(* and never on a frame processed while the session already is CRITICAL.   *)
C25_RelapseLoggedOncePerEntry ==
    (FrameDone /\ Emitted(LOG_RELAPSE)) => obs.prev # CRITICAL

(* C26: whenever a processed frame reports the eyes closed for more than   *)
(* 3.5 s the session is CRITICAL after that frame, with or without         *)
(* probation.                                                              *)
C26_CriticalAfterThreeAndAHalfSeconds ==
    (FrameDone /\ frameClosedMs > 3500) => lastStateRef = CRITICAL

(* C30: in a run where every frame has a face and consecutive processed    *)
(* frames are less than 1000 ms apart the session never goes directly from *)
(* NORMAL to CRITICAL: a frame that enters CRITICAL, by rule 1 or by a     *)
(* relapse, finds the session in WARNING.                                  *)
C30_CriticalOnlyAfterWarning ==
    (FrameDone /\ obs.prev # CRITICAL /\ lastStateRef = CRITICAL) =>
        obs.prev = WARNING

(* C27: after every tick of the simulation interval hazardsOn is true iff  *)
(* the state seen by the tick is WARNING or CRITICAL and honking iff it is *)
(* CRITICAL; the speed stays within [0, 90] km/h and moves toward the      *)
(* target of that state (90, 45, 0) without passing it.                    *)
C27_SimulationTick ==
    /\ [](simState.speed >= 0 /\ simState.speed <= 90 * 100)
    /\ [][(simTicks' # simTicks) =>
            LET seen == rendered.state
                target == IF seen = WARNING THEN 45 * 100
                          ELSE IF seen = CRITICAL THEN 0 ELSE 90 * 100
                speed == simState.speed
            IN /\ simState'.hazardsOn = (seen \in {WARNING, CRITICAL})
               /\ simState'.honking = (seen = CRITICAL)
               /\ (speed >= target) =>
                      (simState'.speed >= target /\ simState'.speed <= speed)
               /\ (speed <= target) =>
                      (simState'.speed <= target /\ simState'.speed >= speed)
               /\ (speed - target >= 100 \/ target - speed >= 100) =>
                      simState'.speed # speed]_vars

(* C27 witness: the car was slowed by a tick in WARNING or CRITICAL and    *)
(* the last tick, in NORMAL, switched the hazards off while the speed is   *)
(* on its way back up.                                                     *)
C27_Witness ==
    /\ simTicks >= 2 /\ rendered.state = NORMAL
    /\ ~simState.hazardsOn /\ ~simState.honking
    /\ simState.speed > 0 /\ simState.speed < MAX_SPEED * 100

(* C28: in the full pipeline a CRITICAL -> NORMAL recovery happens only on *)
(* a frame with eyesClosedDuration = 0, smoothedEAR >= 0.28 and            *)
(* pitch <= 0.2 (a frame assessed closed, squinting or nodding scores at   *)
(* least 30), so a CRITICAL session stays CRITICAL on open-eye frames      *)
(* whose smoothedEAR is below 0.28 or whose pitch is above 0.2.            *)
C28_RecoveryNeedsClearFrame ==
    (FrameDone /\ sample.face /\ obs.prev = CRITICAL /\ lastStateRef = NORMAL)
        => /\ frameClosedMs = 0
           /\ sample.sum >= 28 * sample.len
           /\ sample.pitch <= 20

(* C29: after every processed frame, a NORMAL session has that frame's     *)
(* closedMs <= 2000 and a WARNING session has 200 <= closedMs <= 10000,    *)
(* and closedMs <= 3000 if the frame was inside the probation window.      *)
C29_StateBoundsClosure ==
    FrameDone =>
        /\ (lastStateRef = NORMAL) => frameClosedMs <= 2000
        /\ (lastStateRef = WARNING) =>
               /\ frameClosedMs >= 200 /\ frameClosedMs <= 10000
               /\ obs.isProbation => frameClosedMs <= 3000

(* C29 witness: a frame inside the probation window with closedMs = 3000   *)
(* left the session in WARNING.                                            *)
C29_Witness ==
    /\ FrameDone /\ lastStateRef = WARNING
    /\ obs.isProbation /\ frameClosedMs = 3000

(* C31: while frames with a face keep smoothedEAR below 0.26, the session  *)
(* is CRITICAL after every frame whose closedMs exceeds 10000, or 3000     *)
(* inside probation, and a session that is CRITICAL more than 3 s into a   *)
(* closure stays CRITICAL on every later frame of that closure.            *)
C31_ClosureReachesAndKeepsCritical ==
    /\ []((/\ FrameDone /\ sample.face /\ sample.isClosed
           /\ \/ frameClosedMs > TIME_TO_CRITICAL
              \/ obs.isProbation /\ frameClosedMs > 3000)
          => lastStateRef = CRITICAL)
    /\ [][(/\ fed' # fed
           /\ sample.isClosed /\ lastStateRef = CRITICAL
           /\ frameClosedMs > 3000
           /\ eyesClosedStartTime' = eyesClosedStartTime)
          => lastStateRef' = CRITICAL]_vars

(* C32: no CRITICAL episode is left without a report: an episode that has  *)
(* not triggered the report collaborator yet finds the one-shot flag       *)
(* clear, whatever way the previous episode ended, so that the report      *)
(* effect triggers it and its EMS entry is logged.                         *)
C32_EveryEpisodeCanReport ==
    (lastStateRef = CRITICAL /\ episodeCalls = 0) => ~hasCalledGeminiRef

-----------------------------------------------------------------------------
(* Animation-frame callbacks against the video clock: the video moves to   *)
(* its next frame on its own, and every callback of every running loop     *)
(* looks at the frame the video shows at that moment.                      *)
MaxCallbackNow == 13100
MaxSkipped == 2
CallbackGaps == {3050, 10050}
CallbackEars == {20, 40}
CallbackPitch == 10

CallbackAdvance ==
    \E gap \in CallbackGaps :
        /\ now + gap <= MaxCallbackNow
        /\ videoAdvances(gap)

CallbackFrame ==
    \E captured \in DrowsinessState, earAvg \in CallbackEars :
        processVideo(captured, earAvg, CallbackPitch, 0)

CallbackNoFace ==
    \E captured \in DrowsinessState : noFace(captured, 0)

CallbackSame ==
    \E captured \in DrowsinessState :
        /\ skipped < MaxSkipped
        /\ sameFrame(captured)

CallbackNext ==
    \/ initMediaPipe
    \/ CallbackAdvance
    \/ CallbackFrame
    \/ CallbackNoFace
    \/ CallbackSame
    \/ render

CallbackSpec == Init /\ [][CallbackNext]_vars

(* C33: a callback runs a video frame through the tracker and the state    *)
(* machine only when the video time is later than every video time already *)
(* processed, so each video frame is processed at most once whichever loop *)
(* the callbacks belong to; a callback that finds lastVideoTimeRef equal   *)
(* to the video time changes no tracker and no session state.              *)
C33_FrameProcessedOnce ==
    /\ [][videoFrames' # videoFrames
            => /\ lastVideoTimeRef < now'
               /\ lastVideoTimeRef' = now']_vars
    /\ [][skipped' # skipped
            => /\ lastVideoTimeRef = now
               /\ UNCHANGED sessionVars
               /\ UNCHANGED <<earHistory, eyesClosedStartTime, wasClosedRef,
                              blinkTimestamps, lastVideoTimeRef, videoFrames,
                              fed, sample>>]_vars

C33_Witness ==
    /\ skipped = 2 /\ videoFrames = 2 /\ sample.face
    /\ lastVideoTimeRef = now /\ now = 10050
    /\ Cardinality(loops) = 2 /\ lastStateRef = CRITICAL
    /\ fed = <<20, 20>>


====
